---------------------------- MODULE Spec2Model ----------------------------
(***************************************************************************)
(* Model of the quadtree of mc-map-tools (src/mc-map-tools/src/quadtree.rs)*)
(* : QuadTree::{new, insert, split, get_quadrant, contains, len, clear,    *)
(* iter, query} and the two lazy iterators Items and QueryItems.           *)
(*                                                                         *)
(* Coordinates.  The source uses f32 and halves widths with `/ 2.0`.  All  *)
(* coordinates of the model are integers counted in units of 1/Unit of a   *)
(* source unit; Unit = 2^max_depth, so every halving down to max_depth is  *)
(* exact here exactly as it is exact in f32 for the small dyadic values    *)
(* used.                                                                   *)
(*                                                                         *)
(* Option<T>: None is <<>>, Some(x) is <<x>>.  `children` is <<>> (None)   *)
(* or the 4-tuple of child nodes (Some([..; 4])), indexed by quadrant + 1. *)
(* Elements are borrowed references: the model stores handles into the     *)
(* caller-owned table Rects.                                               *)
(***************************************************************************)
EXTENDS Integers, Sequences, FiniteSets, TLC

\* ---------------------------------------------------------------- constants
\* QuadTree::new: capacity: 4, max_depth: 10
Capacity == 4
MaxDepth == 10
\* sub-units per source coordinate unit: every `/ 2.0` down to max_depth is exact
Unit == 2 ^ MaxDepth

\* enum Quadrant { TL, TR, BR, BL } (`as usize` values)
TL == 0
TR == 1
BR == 2
BL == 3

None == <<>>
Some(x) == <<x>>

\* Bounds { x, y, width, height } given in source units
B(x, y, w, h) == [x |-> x * Unit, y |-> y * Unit, width |-> w * Unit, height |-> h * Unit]

\* ------------------------------------------------------------------- bounds
\* most insert calls between two clears
MaxInserts == 5
\* most insert calls between two clears when only the tree is built
MaxTreeInserts == 6

\* The caller-owned elements (handle -> bounds()).
Rects ==
  <<B(0, 0, 1, 1),      \* r1 of the tests: fits TL at every depth down to 1x1 cells
    B(4, 4, 8, 8),      \* r2 of the tests: straddles the root's mid-lines
    B(9, 9, 1, 1),      \* r3 of the tests: BR of the root
    B(14, 14, 1, 1),    \* r2 of the insert test / r4 of the query test
    B(9, 1, 1, 1),      \* TR of the root
    B(1, 9, 1, 1),      \* BL of the root
    B(0, 0, 0, 0)>>     \* a position: fits TL at every depth down to max_depth
\* the elements inserted while iterators and queries run
Elements == 1..6
\* the elements inserted when termination of a query is checked
LiveElements == 1..4
\* the elements inserted when only the tree is built
TreeElements == DOMAIN Rects

\* Stash records of the duplicate-stash detector: a position, an item-group key
\* and an aggregate count. Three records of one group lie within radius 1 of
\* each other, a fourth of the same group lies far away, a fifth has another
\* group key.
Stash ==
  [h \in 8..12 |->
     CASE h = 8  -> [group_key |-> "a", count |-> 10,  bounds |-> B(1, 1, 0, 0)]
       [] h = 9  -> [group_key |-> "a", count |-> 15,  bounds |-> B(2, 1, 0, 0)]
       [] h = 10 -> [group_key |-> "a", count |-> 40,  bounds |-> B(2, 2, 0, 0)]
       [] h = 11 -> [group_key |-> "a", count |-> 100, bounds |-> B(14, 14, 0, 0)]
       [] h = 12 -> [group_key |-> "b", count |-> 60,  bounds |-> B(3, 3, 0, 0)]]
StashRecords == DOMAIN Stash
\* the neighbourhood radii of a detector run: the record position itself, or
\* the default radius
Radii == {0, 1}

\* Bounded::bounds of an element
bounds(e) == IF e \in StashRecords THEN Stash[e].bounds ELSE Rects[e]

\* Root bounds handed to QuadTree::new
RootBounds == {B(0, 0, 16, 16), B(8, 8, 16, 16)}

\* Elements handed to query (any Bounded, stored or not)
QueryBounds == {B(14, 14, 1, 1), B(4, 4, 8, 8), B(11, 11, 2, 2), B(1, 1, 1, 1)}

VARIABLES
  tree,      \* the root QuadTree
  inserted,  \* number of insert calls since new / the last clear
  items,     \* the live Items iterator, None or Some([quadrants, element_index])
  items_out, \* what the live Items iterator returned up to its first None
  items_end, \* the live Items iterator has returned None
  qitems,    \* the live QueryItems iterator, None or Some([qt, index, element, next_qts])
  q_out,     \* what the live QueryItems iterator returned up to its first None
  q_end,     \* the live QueryItems iterator has returned None
  presplit,  \* None while the root has no children, else Some(n): the root held n
             \* elements when split() was called on it
  last,      \* the last operation: [op, arg]; arg is the number of nodes an insert
             \* split, the len() a clear found, the element a next() returned (0: None)
  fault,     \* an unreachable!() was hit
  det        \* the detector run: [radius, threshold, records, next, warnings];
             \* records are the stash records inserted so far, next is the
             \* position in records of the next one to query around

vars == <<tree, inserted, items, items_out, items_end, qitems, q_out, q_end, presplit, last, fault, det>>

\* ------------------------------------------------------------ QuadTree::new
new(b) ==
  [capacity |-> Capacity, max_depth |-> MaxDepth, depth |-> 0, bounds |-> b,
   elements |-> <<>>, children |-> None]
\* get_quadrant with the mid-line excluded from the right and bottom halves
get_quadrant_strict(self, r) ==
  LET half_width == self.bounds.x + (self.bounds.width \div 2)
      half_height == self.bounds.y + (self.bounds.height \div 2)
      fits_left_half == r.x >= self.bounds.x /\ r.x + r.width < half_width
      fits_right_half == r.x > half_width /\ r.x + r.width < self.bounds.x + self.bounds.width
      fits_top_half == r.y >= self.bounds.y /\ r.y + r.height < half_height
      fits_bottom_half == r.y > half_height /\ r.y + r.height < self.bounds.y + self.bounds.height
  IN  IF fits_top_half /\ fits_left_half THEN Some(TL)
      ELSE IF fits_top_half /\ fits_right_half THEN Some(TR)
      ELSE IF fits_bottom_half /\ fits_right_half THEN Some(BR)
      ELSE IF fits_bottom_half /\ fits_left_half THEN Some(BL)
      ELSE None

\* -------------------------------------------------- QuadTree::get_quadrant
get_quadrant(self, r) ==
  LET half_width == self.bounds.x + (self.bounds.width \div 2)
      half_height == self.bounds.y + (self.bounds.height \div 2)
      fits_left_half == r.x >= self.bounds.x /\ r.x + r.width < half_width
      fits_right_half == r.x >= half_width /\ r.x + r.width < self.bounds.x + self.bounds.width
      fits_top_half == r.y >= self.bounds.y /\ r.y + r.height < half_height
      fits_bottom_half == r.y >= half_height /\ r.y + r.height < self.bounds.y + self.bounds.height
  IN  IF fits_top_half /\ fits_left_half THEN Some(TL)
      ELSE IF fits_top_half /\ fits_right_half THEN Some(TR)
      ELSE IF fits_bottom_half /\ fits_right_half THEN Some(BR)
      ELSE IF fits_bottom_half /\ fits_left_half THEN Some(BL)
      ELSE None

\* ------------------------------------------------------ QuadTree::contains
contains(self, r) ==
  /\ r.x >= self.bounds.x
  /\ r.x + r.width < self.bounds.width
  /\ r.y >= self.bounds.y
  /\ r.y + r.height < self.bounds.height

\* ------------------------------------------------- QuadTree::insert / split
\* The value of an insert or split that ran into unreachable!()
Panicked == [panic |-> TRUE]
IsPanic(n) == DOMAIN n = {"panic"}
\* split_children with the TopRight and BottomLeft bounds exchanged
split_children_swapped(self) ==
  LET hw == self.bounds.width \div 2
      hh == self.bounds.height \div 2
      child(x, y) ==
        [capacity |-> self.capacity, depth |-> self.depth + 1, max_depth |-> self.max_depth,
         bounds |-> [x |-> x, y |-> y, width |-> hw, height |-> hh],
         elements |-> <<>>, children |-> None]
  IN  << child(self.bounds.x, self.bounds.y),
         child(self.bounds.x, self.bounds.y + hh),
         child(self.bounds.x + hw, self.bounds.y + hh),
         child(self.bounds.x + hw, self.bounds.y) >>

\* the four children built by split, before redistribution
split_children(self) ==
  LET hw == self.bounds.width \div 2
      hh == self.bounds.height \div 2
      child(x, y) ==
        [capacity |-> self.capacity, depth |-> self.depth + 1, max_depth |-> self.max_depth,
         bounds |-> [x |-> x, y |-> y, width |-> hw, height |-> hh],
         elements |-> <<>>, children |-> None]
  IN  << child(self.bounds.x, self.bounds.y),
         child(self.bounds.x + hw, self.bounds.y),
         child(self.bounds.x + hw, self.bounds.y + hh),
         child(self.bounds.x, self.bounds.y + hh) >>

RECURSIVE insert(_, _)
RECURSIVE split(_)
RECURSIVE split_loop(_, _, _, _)

\* split_loop losing the elements that fit no quadrant
split_loop_drop(self, children, new_elements, k) ==
  IF k > Len(self.elements)
  THEN [self EXCEPT !.children = children, !.elements = new_elements]
  ELSE LET element == self.elements[k]
           q == get_quadrant(self, bounds(element))
       IN  IF q # None
           THEN LET c == insert(children[q[1] + 1], element)
                IN  IF IsPanic(c) THEN Panicked
                    ELSE split_loop(self, [children EXCEPT ![q[1] + 1] = c], new_elements, k + 1)
           ELSE split_loop(self, children, new_elements, k + 1)

\* `for &element in self.elements.iter()` of split, from position k on
split_loop(self, children, new_elements, k) ==
  IF k > Len(self.elements)
  THEN [self EXCEPT !.children = children, !.elements = new_elements]
  ELSE LET element == self.elements[k]
           q == get_quadrant(self, bounds(element))
       IN  IF q # None
           THEN LET c == insert(children[q[1] + 1], element)
                IN  IF IsPanic(c) THEN Panicked
                    ELSE split_loop(self, [children EXCEPT ![q[1] + 1] = c], new_elements, k + 1)
           ELSE split_loop(self, children, Append(new_elements, element), k + 1)
\* split refusing only beyond max_depth
split_beyond(self) ==
  IF self.depth > self.max_depth THEN self
  ELSE IF self.children # None THEN Panicked
  ELSE split_loop(self, split_children(self), <<>>, 1)

\* split leaving the old element list in place and adding to it
split_keep_old(self) ==
  IF self.depth >= self.max_depth THEN self
  ELSE IF self.children # None THEN Panicked
  ELSE split_loop(self, split_children(self), self.elements, 1)

split(self) ==
  IF self.depth >= self.max_depth THEN self
  ELSE IF self.children # None THEN Panicked
  ELSE split_loop(self, split_children(self), <<>>, 1)
\* insert splitting a node again when its own list exceeds capacity
insert_resplit(self, element) ==
  LET q == get_quadrant(self, bounds(element))
  IN  IF q # None /\ self.children # None
      THEN LET c == insert(self.children[q[1] + 1], element)
           IN  IF IsPanic(c) THEN Panicked
               ELSE [self EXCEPT !.children[q[1] + 1] = c]
      ELSE LET pushed == [self EXCEPT !.elements = Append(@, element)]
           IN  IF Len(pushed.elements) > pushed.capacity THEN split(pushed) ELSE pushed

\* insert splitting a leaf one element too late
insert_late(self, element) ==
  LET q == get_quadrant(self, bounds(element))
  IN  IF q # None /\ self.children # None
      THEN LET c == insert(self.children[q[1] + 1], element)
           IN  IF IsPanic(c) THEN Panicked
               ELSE [self EXCEPT !.children[q[1] + 1] = c]
      ELSE IF self.children # None
      THEN [self EXCEPT !.elements = Append(@, element)]
      ELSE LET pushed == [self EXCEPT !.elements = Append(@, element)]
           IN  IF Len(pushed.elements) > pushed.capacity + 1 THEN split(pushed) ELSE pushed

\* insert keeping every element handed to a node with children in that node
insert_own(self, element) ==
  IF self.children # None
  THEN [self EXCEPT !.elements = Append(@, element)]
  ELSE LET pushed == [self EXCEPT !.elements = Append(@, element)]
       IN  IF Len(pushed.elements) > pushed.capacity THEN split(pushed) ELSE pushed

\* insert putting the element in front of a leaf's list
insert_front(self, element) ==
  LET q == get_quadrant(self, bounds(element))
  IN  IF q # None /\ self.children # None
      THEN LET c == insert(self.children[q[1] + 1], element)
           IN  IF IsPanic(c) THEN Panicked
               ELSE [self EXCEPT !.children[q[1] + 1] = c]
      ELSE IF self.children # None
      THEN [self EXCEPT !.elements = Append(@, element)]
      ELSE LET pushed == [self EXCEPT !.elements = <<element>> \o @]
           IN  IF Len(pushed.elements) > pushed.capacity THEN split(pushed) ELSE pushed

insert(self, element) ==
  LET q == get_quadrant(self, bounds(element))
  IN  IF q # None /\ self.children # None
      THEN LET c == insert(self.children[q[1] + 1], element)
           IN  IF IsPanic(c) THEN Panicked
               ELSE [self EXCEPT !.children[q[1] + 1] = c]
      ELSE IF self.children # None
      THEN [self EXCEPT !.elements = Append(@, element)]
      ELSE LET pushed == [self EXCEPT !.elements = Append(@, element)]
           IN  IF Len(pushed.elements) > pushed.capacity THEN split(pushed) ELSE pushed

\* ----------------------------------------------------------- QuadTree::len
RECURSIVE len(_)
len(self) ==
  IF self.children # None
  THEN Len(self.elements) + len(self.children[1]) + len(self.children[2])
       + len(self.children[3]) + len(self.children[4])
  ELSE Len(self.elements)

\* number of nodes that have children
RECURSIVE split_count(_)
split_count(self) ==
  IF self.children # None
  THEN 1 + split_count(self.children[1]) + split_count(self.children[2])
       + split_count(self.children[3]) + split_count(self.children[4])
  ELSE 0

\* --------------------------------------------------------- QuadTree::clear
\* clear keeping the children
clear_keep_children(self) == [self EXCEPT !.elements = <<>>]

\* elements.clear(); every child is cleared and then all four are dropped
clear(self) == [self EXCEPT !.elements = <<>>, !.children = None]

\* ------------------------------------------------------------- references
\* A reference to a node of the tree is the path of quadrants from the root.
\* path_ok: every step of the path goes through a node that has children
RECURSIVE path_ok(_, _)
path_ok(node, path) ==
  IF path = <<>> THEN TRUE
  ELSE IF node.children = None THEN FALSE
  ELSE path_ok(node.children[Head(path) + 1], Tail(path))

RECURSIVE node_at(_, _)
node_at(node, path) ==
  IF path = <<>> THEN node ELSE node_at(node.children[Head(path) + 1], Tail(path))

\* ----------------------------------------------------------- QuadTree::iter
iter ==
  [quadrants |-> <<>>, element_index |-> 0]

\* ------------------------------------------------------------- Items::next
\* `while last_index == BL { match self.quadrants.pop() ... }`: the quadrants
\* left and the last_index popped, None when the stack ran empty
RECURSIVE pop_while_BL(_)
\* the pop loop taking one quadrant off the stack only
pop_once(quadrants) ==
  IF quadrants = <<>> THEN [quadrants |-> <<>>, last_index |-> None]
  ELSE [quadrants |-> SubSeq(quadrants, 1, Len(quadrants) - 1),
        last_index |-> Some(quadrants[Len(quadrants)])]

pop_while_BL(quadrants) ==
  IF quadrants = <<>> THEN [quadrants |-> <<>>, last_index |-> None]
  ELSE LET i == quadrants[Len(quadrants)]
           rest == SubSeq(quadrants, 1, Len(quadrants) - 1)
       IN  IF i = BL THEN pop_while_BL(rest)
           ELSE [quadrants |-> rest, last_index |-> Some(i)]

\* next_sibling skipping BR
next_sibling_skip(last_index) ==
  CASE last_index = TL -> TR
    [] last_index = TR -> BL
    [] last_index = BR -> BL

\* `match last_index { TL => TR, TR => BR, BR => BL, BL => unreachable!() }`
next_sibling(last_index) ==
  CASE last_index = TL -> TR
    [] last_index = TR -> BR
    [] last_index = BR -> BL

\* One call of next(): the value returned, the iterator afterwards, and
\* whether an unreachable!() was hit.
RECURSIVE Items_next(_, _)
Items_next(root, self) ==
  IF ~path_ok(root, self.quadrants)
  THEN [ret |-> None, self |-> self, panic |-> TRUE]
  ELSE LET node == node_at(root, self.quadrants)
       IN  IF self.element_index < Len(node.elements)
           THEN [ret |-> Some(node.elements[self.element_index + 1]),
                 self |-> [self EXCEPT !.element_index = @ + 1], panic |-> FALSE]
           ELSE IF node.children # None
           THEN Items_next(root, [quadrants |-> Append(self.quadrants, TL), element_index |-> 0])
           ELSE LET p == pop_while_BL(self.quadrants)
                IN  IF p.last_index = None
                    THEN [ret |-> None, self |-> [self EXCEPT !.quadrants = p.quadrants],
                          panic |-> FALSE]
                    ELSE IF p.last_index[1] = BL
                    THEN [ret |-> None, self |-> [self EXCEPT !.quadrants = p.quadrants],
                          panic |-> TRUE]
                    ELSE Items_next(root,
                           [quadrants |-> Append(p.quadrants, next_sibling(p.last_index[1])),
                            element_index |-> 0])

\* ---------------------------------------------------------- QuadTree::query
\* query starting behind the first element
query_skip_first(element) ==
  [qt |-> <<>>, index |-> 1, element |-> element, next_qts |-> <<>>]

query(element) ==
  [qt |-> <<>>, index |-> 0, element |-> element, next_qts |-> <<>>]
\* descend going to the child after the one the element fits
descend_next_quadrant(self, q) ==
  [self EXCEPT !.qt = Append(self.qt, (q + 1) % 4), !.index = 0]

\* -------------------------------------------------------- QueryItems::next
\* descend forgetting to reset index
descend_keep_index(self, q) ==
  [self EXCEPT !.qt = Append(self.qt, q)]

\* (Some(q), children: Some): self.qt = &*children[q]; self.index = 0
descend(self, q) ==
  [self EXCEPT !.qt = Append(self.qt, q), !.index = 0]

\* descend_all pushing the siblings as BL, BR, TR
descend_all_reversed(self) ==
  [self EXCEPT !.qt = Append(self.qt, TL),
               !.next_qts = @ \o <<Append(self.qt, BL), Append(self.qt, BR), Append(self.qt, TR)>>,
               !.index = 0]

\* descend_all pushing TL among the pending siblings as well
descend_all_dup(self) ==
  [self EXCEPT !.qt = Append(self.qt, TL),
               !.next_qts = @ \o <<Append(self.qt, TL), Append(self.qt, TR),
                                   Append(self.qt, BR), Append(self.qt, BL)>>,
               !.index = 0]

\* (None, children: Some), contained: go to TL and push TR, BR, BL
descend_all(self) ==
  [self EXCEPT !.qt = Append(self.qt, TL),
               !.next_qts = @ \o <<Append(self.qt, TR), Append(self.qt, BR), Append(self.qt, BL)>>,
               !.index = 0]

\* (_, children: None), next_qts.pop() is Some(qt): self.qt = qt; self.index = 0
pop_next(self) ==
  [self EXCEPT !.qt = self.next_qts[Len(self.next_qts)],
               !.next_qts = SubSeq(@, 1, Len(@) - 1),
               !.index = 0]

RECURSIVE QueryItems_next(_, _)
QueryItems_next(root, self) ==
  LET qt == node_at(root, self.qt)
      q == get_quadrant(qt, self.element)
  IN  IF self.index < Len(qt.elements)
      THEN [ret |-> Some(qt.elements[self.index + 1]), self |-> [self EXCEPT !.index = @ + 1]]
      ELSE IF q # None /\ qt.children # None
      THEN QueryItems_next(root, descend(self, q[1]))
      ELSE IF qt.children # None
      THEN IF ~contains(qt, self.element)
           THEN [ret |-> None, self |-> self]
           ELSE QueryItems_next(root, descend_all(self))
      ELSE IF self.next_qts # <<>>
      THEN QueryItems_next(root, pop_next(self))
      ELSE [ret |-> None, self |-> self]

\* ------------------------------------------------------- Iterator::collect
\* `qt.iter().collect()` and `qt.query(r).collect()` of the tests: next() is
\* called until it returns None
RECURSIVE Items_collect(_, _)
Items_collect(root, self) ==
  LET r == Items_next(root, self)
  IN  IF r.ret = None THEN <<>> ELSE <<r.ret[1]>> \o Items_collect(root, r.self)

RECURSIVE QueryItems_collect(_, _)
QueryItems_collect(root, self) ==
  LET r == QueryItems_next(root, self)
  IN  IF r.ret = None THEN <<>> ELSE <<r.ret[1]>> \o QueryItems_collect(root, r.self)

\* ------------------------------------------ duplicate-stash detector (4.2)
\* the record's bounds expanded outward by the radius
window(b, radius) ==
  [x |-> b.x - radius * Unit, y |-> b.y - radius * Unit,
   width |-> b.width + 2 * radius * Unit, height |-> b.height + 2 * radius * Unit]

\* sum of the counts of a set of stash records
RECURSIVE sum_counts(_)
sum_counts(S) ==
  IF S = {} THEN 0
  ELSE LET h == CHOOSE h \in S : TRUE IN Stash[h].count + sum_counts(S \ {h})

\* Absolute mode around one record: query with its window, partition what is
\* returned by group key, sum per group, one warning per group whose sum
\* strictly exceeds the threshold
warnings_around(root, record, radius, threshold) ==
  LET returned == QueryItems_collect(root, query(window(bounds(record), radius)))
      cluster == {returned[i] : i \in DOMAIN returned}
      members(g) == {h \in cluster : Stash[h].group_key = g}
  IN  {[group_key |-> g, total_count |-> sum_counts(members(g)), members |-> members(g)] :
         g \in {k \in {Stash[h].group_key : h \in cluster} : sum_counts(members(k)) > threshold}}

\* ------------------------------------------------------------------ actions
Init ==
  /\ tree \in {new(b) : b \in RootBounds}
  /\ inserted = 0
  /\ items = None
  /\ items_out = <<>>
  /\ items_end = FALSE
  /\ qitems = None
  /\ q_out = <<>>
  /\ q_end = FALSE
  /\ presplit = None
  /\ last = [op |-> "new", arg |-> 0]
  /\ fault = FALSE
  /\ det = [radius |-> 0, threshold |-> 50, records |-> <<>>, next |-> 1, warnings |-> {}]

\* No iterator borrows the tree (insert and clear take &mut self).
Unborrowed == items = None /\ qitems = None

\* qt.insert(element)
Insert(element) ==
  /\ ~fault
  /\ Unborrowed
  /\ inserted < MaxInserts
  /\ LET r == insert(tree, element)
     IN  /\ fault' = IsPanic(r)
         /\ tree' = IF IsPanic(r) THEN tree ELSE r
  /\ inserted' = inserted + 1
  /\ presplit' = IF tree.children = None /\ tree'.children # None
                 THEN Some(Len(tree.elements) + 1) ELSE presplit
  /\ last' = [op |-> "insert", arg |-> split_count(tree') - split_count(tree)]
  /\ UNCHANGED <<items, items_out, items_end, qitems, q_out, q_end, det>>

\* qt.insert(element) while only the tree is built
TreeInsert(element) ==
  /\ ~fault
  /\ Unborrowed
  /\ inserted < MaxTreeInserts
  /\ LET r == insert(tree, element)
     IN  /\ fault' = IsPanic(r)
         /\ tree' = IF IsPanic(r) THEN tree ELSE r
  /\ inserted' = inserted + 1
  /\ presplit' = IF tree.children = None /\ tree'.children # None
                 THEN Some(Len(tree.elements) + 1) ELSE presplit
  /\ last' = [op |-> "insert", arg |-> split_count(tree') - split_count(tree)]
  /\ UNCHANGED <<items, items_out, items_end, qitems, q_out, q_end, det>>

\* qt.clear()
Clear ==
  /\ ~fault
  /\ Unborrowed
  /\ tree' = clear(tree)
  /\ inserted' = 0
  /\ presplit' = None
  /\ last' = [op |-> "clear", arg |-> len(tree)]
  /\ UNCHANGED <<items, items_out, items_end, qitems, q_out, q_end, fault, det>>

\* let it = qt.iter()
Iter ==
  /\ ~fault
  /\ Unborrowed
  /\ items' = Some(iter)
  /\ items_out' = <<>>
  /\ items_end' = FALSE
  /\ last' = [op |-> "iter", arg |-> 0]
  /\ UNCHANGED <<tree, inserted, qitems, q_out, q_end, presplit, fault, det>>

\* it.next()
ItemsNext ==
  /\ ~fault
  /\ items # None
  /\ LET r == Items_next(tree, items[1])
     IN  /\ fault' = r.panic
         /\ items' = Some(r.self)
         /\ items_out' = IF ~items_end /\ r.ret # None THEN Append(items_out, r.ret[1])
                         ELSE items_out
         /\ items_end' = (items_end \/ r.ret = None)
         /\ last' = [op |-> "next", arg |-> IF r.ret = None THEN 0 ELSE r.ret[1]]
  /\ UNCHANGED <<tree, inserted, qitems, q_out, q_end, presplit, det>>

\* let qi = qt.query(element)
Query(element) ==
  /\ ~fault
  /\ Unborrowed
  /\ qitems' = Some(query(element))
  /\ q_out' = <<>>
  /\ q_end' = FALSE
  /\ last' = [op |-> "query", arg |-> 0]
  /\ UNCHANGED <<tree, inserted, items, items_out, items_end, presplit, fault, det>>

\* a next() that takes the root's first element out of the tree
QueryNext_drain ==
  /\ ~fault
  /\ qitems # None
  /\ LET r == QueryItems_next(tree, qitems[1])
     IN  /\ qitems' = Some(r.self)
         /\ q_out' = IF ~q_end /\ r.ret # None THEN Append(q_out, r.ret[1]) ELSE q_out
         /\ q_end' = (q_end \/ r.ret = None)
         /\ last' = [op |-> "qnext", arg |-> IF r.ret = None THEN 0 ELSE r.ret[1]]
  /\ tree' = IF tree.elements # <<>> THEN [tree EXCEPT !.elements = Tail(@)] ELSE tree
  /\ UNCHANGED <<inserted, items, items_out, items_end, presplit, fault, det>>

\* qi.next()
QueryNext ==
  /\ ~fault
  /\ qitems # None
  /\ LET r == QueryItems_next(tree, qitems[1])
     IN  /\ qitems' = Some(r.self)
         /\ q_out' = IF ~q_end /\ r.ret # None THEN Append(q_out, r.ret[1]) ELSE q_out
         /\ q_end' = (q_end \/ r.ret = None)
         /\ last' = [op |-> "qnext", arg |-> IF r.ret = None THEN 0 ELSE r.ret[1]]
  /\ UNCHANGED <<tree, inserted, items, items_out, items_end, presplit, fault, det>>

\* the iterator goes out of scope
Drop ==
  /\ ~fault
  /\ ~Unborrowed
  /\ items' = None
  /\ items_out' = <<>>
  /\ items_end' = FALSE
  /\ qitems' = None
  /\ q_out' = <<>>
  /\ q_end' = FALSE
  /\ last' = [op |-> "drop", arg |-> 0]
  /\ UNCHANGED <<tree, inserted, presplit, fault, det>>

Next ==
  \/ \E element \in Elements : Insert(element)
  \/ Clear
  \/ Iter
  \/ ItemsNext
  \/ \E b \in QueryBounds : Query(b)
  \/ QueryNext
  \/ Drop

Spec == Init /\ [][Next]_vars

\* the detector inserts a stash record into the index; all records are
\* inserted before the first query
DetInsert(record) ==
  /\ ~fault
  /\ Unborrowed
  /\ det.next = 1
  /\ \A i \in DOMAIN det.records : det.records[i] # record
  /\ LET r == insert(tree, record)
     IN  /\ fault' = IsPanic(r)
         /\ tree' = IF IsPanic(r) THEN tree ELSE r
  /\ inserted' = inserted + 1
  /\ presplit' = IF tree.children = None /\ tree'.children # None
                 THEN Some(Len(tree.elements) + 1) ELSE presplit
  /\ last' = [op |-> "insert", arg |-> split_count(tree') - split_count(tree)]
  /\ det' = [det EXCEPT !.records = Append(@, record)]
  /\ UNCHANGED <<items, items_out, items_end, qitems, q_out, q_end>>

\* the detector queries around the next record and emits the warnings of its
\* neighbourhood; a (cluster, group) already reported is not reported again
DetScan(radius) ==
  /\ ~fault
  /\ Unborrowed
  /\ det.next <= Len(det.records)
  /\ det.next = 1 \/ radius = det.radius
  /\ det' = [det EXCEPT
               !.radius = radius,
               !.next = @ + 1,
               !.warnings = @ \cup warnings_around(tree, det.records[det.next],
                                                   radius, det.threshold)]
  /\ last' = [op |-> "scan", arg |-> det.records[det.next]]
  /\ UNCHANGED <<tree, inserted, items, items_out, items_end, qitems, q_out, q_end,
                 presplit, fault>>

\* a detector run: insert the stash records, then query around each of them
NextDetector ==
  \/ \E record \in StashRecords : DetInsert(record)
  \/ \E radius \in Radii : DetScan(radius)

SpecDetector == Init /\ [][NextDetector]_vars

\* only the tree is built: more inserts, and positions among the elements
NextTree ==
  \/ \E element \in TreeElements : TreeInsert(element)
  \/ Clear

SpecTree == Init /\ [][NextTree]_vars

\* inserts, clears and queries only; a caller that holds a query sequence
\* keeps calling next() or drops it
NextLive ==
  \/ \E element \in LiveElements : Insert(element)
  \/ Clear
  \/ \E element \in QueryBounds : Query(element)
  \/ QueryNext
  \/ Drop

SpecLive == Init /\ [][NextLive]_vars /\ WF_vars(QueryNext)

\* ------------------------------------------------------------------- claims
\* the elements of a subtree in depth-first pre-order: own elements, then the
\* subtrees of TL, TR, BR, BL
RECURSIVE preorder(_)
preorder(node) ==
  IF node.children # None
  THEN node.elements \o preorder(node.children[TL + 1]) \o preorder(node.children[TR + 1])
       \o preorder(node.children[BR + 1]) \o preorder(node.children[BL + 1])
  ELSE node.elements

IsPrefix(a, b) == Len(a) <= Len(b) /\ SubSeq(b, 1, Len(a)) = a

\* C1: after any sequence of N insert calls on a fresh (or cleared) tree,
\* len() equals N, whatever the elements' bounds and however many splits ran.
C1_LenIsInsertCount == len(tree) = inserted

\* an insert has just split a node and left elements (straddling or outside
\* the root) in the split node's own list
C1_Witness ==
  /\ last.op = "insert"
  /\ last.arg >= 1
  /\ tree.elements # <<>>
  /\ len(tree) = 5

\* C2: clear() leaves len() = 0, an iter() that yields nothing, a root without
\* children and with unchanged bounds, capacity, depth and max_depth: the tree
\* is the freshly constructed tree of the same bounds.
C2_ClearResets ==
  [][Clear => /\ len(tree') = 0
              /\ Items_collect(tree', iter) = <<>>
              /\ tree'.children = None
              /\ tree'.bounds = tree.bounds
              /\ tree'.capacity = tree.capacity
              /\ tree'.depth = tree.depth
              /\ tree'.max_depth = tree.max_depth
              /\ tree' = new(tree.bounds)]_vars

\* clear() has just run on a tree that held five elements, hence a split one
C2_Witness ==
  /\ last.op = "clear"
  /\ last.arg >= 5
  /\ tree.children = None

\* C3: up to its first None, iter() yields the stored elements in depth-first
\* pre-order (own elements, then TL, TR, BR, BL), each exactly once: len()
\* items when None comes.
C3_IterIsPreorder ==
  items # None =>
    /\ Len(preorder(tree)) = len(tree)
    /\ IF items_end THEN items_out = preorder(tree) ELSE IsPrefix(items_out, preorder(tree))

\* an iteration ran to its None over a split root that holds own elements and
\* elements in each of its four children
C3_Witness ==
  /\ items # None
  /\ items_end
  /\ tree.children # None
  /\ tree.elements # <<>>
  /\ \A c \in 1..4 : tree.children[c].elements # <<>>
  /\ Len(items_out) = 5

\* C4: while no more than capacity elements were inserted, no split happens
\* and iter() yields the elements in insertion order: after each such insert,
\* iter() yields what it yielded before followed by the new element (nothing
\* on a new or cleared tree), and len() is the number of inserts.
C4_InsertionOrder ==
  [][/\ \A e \in Elements :
          (Insert(e) /\ inserted' <= 4) =>
            /\ tree'.children = None
            /\ Items_collect(tree', iter) = Append(Items_collect(tree, iter), e)
            /\ len(tree') = inserted'
     /\ inserted' = 0 => Items_collect(tree', iter) = <<>>]_vars

\* the insert test: r1 = (0,0,1,1), then r2 = (14,14,1,1), into (0,0,16,16);
\* iter() has yielded [r1, r2]
C4_Witness ==
  /\ tree = insert(insert(new(B(0, 0, 16, 16)), 1), 4)
  /\ inserted = 2
  /\ items # None
  /\ items_end
  /\ items_out = <<1, 4>>
  /\ len(tree) = 2

\* ---- query
Range(f) == {f[i] : i \in DOMAIN f}

\* the path of the single-quadrant descent of query: from node down while the
\* node has children and the element fits one of its quadrants
RECURSIVE descent_path(_, _)
descent_path(node, r) ==
  IF node.children # None /\ get_quadrant(node, r) # None
  THEN <<get_quadrant(node, r)[1]>>
       \o descent_path(node.children[get_quadrant(node, r)[1] + 1], r)
  ELSE <<>>

\* the own elements of the nodes along a path, root first
RECURSIVE path_elements(_, _)
path_elements(node, path) ==
  IF path = <<>> THEN node.elements
  ELSE node.elements \o path_elements(node.children[Head(path) + 1], Tail(path))

\* r lies within the bounds b: x >= b.x, y >= b.y, x+width < b.x+b.width,
\* y+height < b.y+b.height
within(b, r) ==
  /\ r.x >= b.x
  /\ r.y >= b.y
  /\ r.x + r.width < b.x + b.width
  /\ r.y + r.height < b.y + b.height

\* a query has returned its None
QueryDone == qitems # None /\ q_end
\* its element, and the node where its single-quadrant descent ends
QElement == qitems[1].element
QPath == descent_path(tree, QElement)
QNode == node_at(tree, QPath)
\* the descent ends at a split node: the element fits no single quadrant of it
Straddling == QueryDone /\ QNode.children # None

\* the query test: r1, r2, r3 inserted into (0,0,16,16), query(r4) finished
QueryTest ==
  /\ tree = insert(insert(insert(new(B(0, 0, 16, 16)), 1), 2), 3)
  /\ inserted = 3
  /\ QueryDone
  /\ QElement = B(14, 14, 1, 1)

\* C5 as stated: the query test returns exactly r2 and r3, not r1.
C5_ExactlyR2R3 == QueryTest => Range(q_out) = {2, 3}

\* C5 as amended: the query test returns r1, r2, r3 in this order (three
\* elements do not split a root of capacity 4, and an unsplit root yields all
\* of its elements): r2 and r3 are in the result, and so is r1.
C5_QueryTestResult == QueryTest => q_out = <<1, 2, 3>>

C5_Witness == QueryTest /\ {2, 3} \subseteq Range(q_out) /\ tree.children = None

\* C6: when the descent ends at a leaf (the element fits a single quadrant at
\* every split node it reaches), query yields exactly the own elements of the
\* nodes on that path, root first; on an unsplit tree, all the elements
\* inserted.
C6_SinglePath ==
  (QueryDone /\ QNode.children = None) =>
    /\ q_out = path_elements(tree, QPath)
    /\ tree.children = None => (q_out = tree.elements /\ Len(q_out) = inserted)

\* a finished query whose path went two levels down, that yielded something
\* and left elements of sibling subtrees out
C6_Witness ==
  /\ QueryDone
  /\ QNode.children = None
  /\ Len(QPath) >= 2
  /\ q_out # <<>>
  /\ Len(q_out) < len(tree)

\* C7: when the element fits no single quadrant of a split node and lies
\* within that node's bounds, the own elements of all four children of the
\* node are yielded.
C7_AllFourVisited ==
  (Straddling /\ within(QNode.bounds, QElement)) =>
    \A c \in 1..4 : Range(QNode.children[c].elements) \subseteq Range(q_out)

\* the position of quadrant q in a visiting order
RankIn(order, q) == CHOOSE i \in 1..4 : order[i] = q
\* the elements yielded after those of the descent path come from the children
\* of the straddled node, in the given order of the children
ChildrenYieldedIn(order) ==
  LET first == Len(path_elements(tree, QPath)) + 1
      quad(i) == get_quadrant(QNode, bounds(q_out[i]))
  IN  \A i, j \in first..Len(q_out) :
        /\ quad(i) # None
        /\ i < j => RankIn(order, quad(i)[1]) <= RankIn(order, quad(j)[1])

\* C8 as stated: in the straddling case the children are visited in the
\* order TL, TR, BR, BL.
C8_OrderTLTRBRBL ==
  (Straddling /\ contains(QNode, QElement)) => ChildrenYieldedIn(<<TL, TR, BR, BL>>)

\* C8 as amended: in the straddling case the children are visited in the
\* order TL, BL, BR, TR (the pending siblings are popped last-in first-out):
\* the yielded elements of BL precede those of BR, which precede those of TR;
\* when none of the four children is split, all four are yielded this way.
C8_OrderTLBLBRTR ==
  (Straddling /\ contains(QNode, QElement)) =>
    /\ ChildrenYieldedIn(<<TL, BL, BR, TR>>)
    /\ (\A c \in 1..4 : QNode.children[c].children = None) =>
         q_out = path_elements(tree, QPath)
                 \o QNode.children[TL + 1].elements \o QNode.children[BL + 1].elements
                 \o QNode.children[BR + 1].elements \o QNode.children[TR + 1].elements

\* a finished straddling query that yielded elements of the TR, the BR and the
\* BL child
C8_Witness ==
  /\ Straddling
  /\ contains(QNode, QElement)
  /\ \A c \in {TR, BR, BL} :
       /\ QNode.children[c + 1].elements # <<>>
       /\ Range(QNode.children[c + 1].elements) \subseteq Range(q_out)

\* C9: in the straddling case the traversal descends into the children if and
\* only if the element lies within the node's bounds, at any origin.
C9_DescendsIffWithin ==
  Straddling => (qitems[1].qt # QPath <=> within(QNode.bounds, QElement))

Count(s, h) == Cardinality({i \in DOMAIN s : s[i] = h})

\* C11: a query sequence is finite and yields no stored element more than
\* once: whatever has been yielded so far holds each element at most as often
\* as the tree stores it (so at most len() elements are ever yielded), and a
\* live sequence whose next() keeps being called reaches None or is dropped.
C11_FiniteNoRepeat ==
  /\ [](qitems # None =>
         \A h \in LiveElements : Count(q_out, h) <= Count(preorder(tree), h))
  /\ ((qitems # None /\ ~q_end) ~> (q_end \/ qitems = None))

\* a finished query that went into all four children of a split node and
\* yielded from several element lists
C11_Witness ==
  /\ QueryDone
  /\ QNode.children # None
  /\ contains(QNode, QElement)
  /\ Len(q_out) >= 4
  /\ Len(q_out) = len(tree)

\* ---------------------------------------------------------------------- C12
\* all nodes of the tree below (and including) node
RECURSIVE Nodes(_)
Nodes(node) ==
  {node} \cup (IF node.children # None
               THEN Nodes(node.children[1]) \cup Nodes(node.children[2])
                    \cup Nodes(node.children[3]) \cup Nodes(node.children[4])
               ELSE {})

\* the nodes of the tree that have children
SplitNodes == {n \in Nodes(tree) : n.children # None}

\* bounds (x, y, w, h) in scaled units
Rect(x, y, w, h) == [x |-> x, y |-> y, width |-> w, height |-> h]

\* C12: a split node with bounds (x,y,w,h) has exactly four children, at
\* TopLeft, TopRight, BottomRight, BottomLeft, with bounds (x,y,w/2,h/2),
\* (x+w/2,y,w/2,h/2), (x+w/2,y+h/2,w/2,h/2), (x,y+h/2,w/2,h/2), each one level
\* deeper and with the parent's capacity and max_depth; for (0,0,16,16) they
\* are (0,0,8,8), (8,0,8,8), (8,8,8,8), (0,8,8,8).
C12_SplitChildren ==
  \A n \in SplitNodes :
    LET x == n.bounds.x
        y == n.bounds.y
        w == n.bounds.width
        h == n.bounds.height
        c(q) == n.children[q + 1]
    IN  /\ DOMAIN n.children = 1..4
        /\ w % 2 = 0 /\ h % 2 = 0
        /\ c(TL).bounds = Rect(x, y, w \div 2, h \div 2)
        /\ c(TR).bounds = Rect(x + w \div 2, y, w \div 2, h \div 2)
        /\ c(BR).bounds = Rect(x + w \div 2, y + h \div 2, w \div 2, h \div 2)
        /\ c(BL).bounds = Rect(x, y + h \div 2, w \div 2, h \div 2)
        /\ \A q \in {TL, TR, BR, BL} :
             /\ c(q).depth = n.depth + 1
             /\ c(q).capacity = n.capacity
             /\ c(q).max_depth = n.max_depth
        /\ n.bounds = B(0, 0, 16, 16) =>
             /\ c(TL).bounds = B(0, 0, 8, 8)
             /\ c(TR).bounds = B(8, 0, 8, 8)
             /\ c(BR).bounds = B(8, 8, 8, 8)
             /\ c(BL).bounds = B(0, 8, 8, 8)

\* the root (0,0,16,16) is split, and so is one of its children
C12_Witness ==
  /\ tree.bounds = B(0, 0, 16, 16)
  /\ tree.children # None
  /\ \E q \in {TL, TR, BR, BL} : tree.children[q + 1].children # None

\* ---------------------------------------------------------------------- C13
\* the run is over the four records of the scenario in the area (0,0,16,16)
\* with radius 1, and every record has been queried around
DetectorScenario ==
  /\ tree.bounds = B(0, 0, 16, 16)
  /\ Range(det.records) = {8, 9, 10, 11}
  /\ det.next > Len(det.records)
  /\ det.radius = 1

\* C13: in Absolute mode with threshold 50, three records with counts 10, 15,
\* 40 of one group within the radius of each other give exactly one warning
\* with total 65, and a fourth record of the same group with count 100 far
\* away is not merged into it and gives its own warning with total 100.
C13_DetectorScenario ==
  DetectorScenario =>
    /\ Cardinality({w \in det.warnings : w.total_count = 65}) = 1
    /\ \A w \in det.warnings : ~(11 \in w.members /\ w.members \cap {8, 9, 10} # {})
    /\ \E w \in det.warnings : w.total_count = 100 /\ w.members = {11}

\* ---------------------------------------------------------------------- C14
\* C14: every element in the own list of a node with children fits no single
\* quadrant of that node, and every element stored below the child at a
\* quadrant fits that quadrant: an element fitting a quadrant of a split node
\* is stored in that quadrant's subtree.
C14_OwnFitNoQuadrant ==
  \A n \in SplitNodes :
    /\ \A i \in DOMAIN n.elements : get_quadrant(n, bounds(n.elements[i])) = None
    /\ \A q \in {TL, TR, BR, BL} :
         \A e \in Range(preorder(n.children[q + 1])) : get_quadrant(n, bounds(e)) = Some(q)

\* an insert into a split root that holds straddling elements itself and has
\* elements below it
C14_Witness ==
  /\ last.op = "insert"
  /\ tree.children # None
  /\ Len(tree.elements) >= 2
  /\ len(tree) >= Len(tree.elements) + 3

\* ---------------------------------------------------------------------- C15
\* the paths of the nodes below (and including) node that have children
RECURSIVE SplitPaths(_)
SplitPaths(node) ==
  IF node.children = None THEN {}
  ELSE {<<>>} \cup UNION {{<<q>> \o p : p \in SplitPaths(node.children[q + 1])} :
                           q \in {TL, TR, BR, BL}}

\* C15 as stated: in every reachable state a node with children (here the
\* root) holds in its own list at most as many elements as it held when it
\* was split.
C15_AtMostPreSplit ==
  presplit # None => Len(tree.elements) <= presplit[1]

\* C15 amended: right after the insert call that split it, a node holds in its
\* own list at most as many elements as it held when split was called (what it
\* held before the call plus the new element; capacity + 1 for a node created
\* by the same call).
C15_AtMostPreSplitWhenSplit ==
  [][last'.op = "insert" /\ ~fault' =>
       \A p \in SplitPaths(tree') :
         LET was == path_ok(tree, p)
         IN  (~was \/ node_at(tree, p).children = None) =>
               Len(node_at(tree', p).elements) <=
                 IF was THEN Len(node_at(tree, p).elements) + 1 ELSE Capacity + 1]_vars

\* the insert that splits the root leaves everything the root held in its own
\* list
C15_Witness ==
  /\ last.op = "insert"
  /\ last.arg >= 1
  /\ presplit # None
  /\ Len(tree.elements) = presplit[1]

\* ---------------------------------------------------------------------- C16
\* C16: after every insert, every leaf above max_depth holds at most capacity
\* elements; more than capacity elements are held only by leaves at max_depth
\* and by nodes with children.
C16_LeafWithinCapacity ==
  \A n \in Nodes(tree) :
    Len(n.elements) > n.capacity => (n.children # None \/ n.depth = n.max_depth)

\* an insert has left a leaf at max_depth with capacity + 1 elements, while
\* every leaf above it is within capacity
C16_Witness ==
  /\ last.op = "insert"
  /\ \E n \in Nodes(tree) :
       n.children = None /\ n.depth = n.max_depth /\ Len(n.elements) = n.capacity + 1

\* ---------------------------------------------------------------------- C17
\* C17: no node is deeper than max_depth and a node at max_depth has no
\* children: split leaves such a node as it is, and the inserts that reach it
\* end without a fault and with every inserted element retained.
C17_DepthBounded ==
  /\ ~fault
  /\ len(tree) = inserted
  /\ \A n \in Nodes(tree) :
       /\ n.depth <= n.max_depth
       /\ n.depth = n.max_depth => (n.children = None /\ split(n) = n)

\* elements that all fit the same quadrant chain were inserted into a leaf at
\* max_depth that was over-full already: they are all in that one leaf
C17_Witness ==
  \E n \in Nodes(tree) :
    /\ n.depth = n.max_depth
    /\ Len(n.elements) >= n.capacity + 2
    /\ Len(n.elements) = inserted

\* ---------------------------------------------------------------------- C18
\* C18 as stated: one insert call on the root splits at most one node.
C18_AtMostOneSplit ==
  last.op = "insert" => last.arg <= 1

\* C18 amended: one insert call splits at most one node per depth: the nodes
\* it splits lie on one chain from parent to child, at most max_depth of them,
\* and a node that had children keeps them, split is not invoked on it again.
C18_SplitsFormChain ==
  [][last'.op = "insert" =>
       LET NewSplit == SplitPaths(tree') \ SplitPaths(tree)
       IN  /\ ~fault'
           /\ SplitPaths(tree) \subseteq SplitPaths(tree')
           /\ \A p \in SplitPaths(tree) :
                \A q \in {TL, TR, BR, BL} :
                  node_at(tree', p).children[q + 1].bounds = node_at(tree, p).children[q + 1].bounds
           /\ \A p, r \in NewSplit : IsPrefix(p, r) \/ IsPrefix(r, p)
           /\ Cardinality(NewSplit) <= MaxDepth
           /\ Cardinality(NewSplit) = last'.arg]_vars

\* one insert call has split a node and, while redistributing, a child of it
C18_Witness ==
  /\ last.op = "insert"
  /\ last.arg >= 2

\* ---------------------------------------------------------------------- C19
\* C19: under any sequence of insert, clear, iter and query operations no
\* unreachable!() is hit: split is not invoked on a node with children, the
\* path stack of Items names a node of the tree, and the sibling step of
\* Items is not handed BottomLeft.
C19_NoUnreachable ==
  /\ ~fault
  /\ items # None => path_ok(tree, items[1].quadrants)

\* an iteration that went through the children of several split nodes and
\* yielded elements stored below a BottomLeft child has ended
C19_Witness ==
  /\ items # None
  /\ items_end
  /\ split_count(tree) >= 2
  /\ Len(items_out) = len(tree)
  /\ len(tree.children[BL + 1]) >= 1

\* ---------------------------------------------------------------------- C20
\* the rectangles routed through the nodes with children: every element,
\* every query element, and rectangles with an edge on the mid-lines of the
\* roots and of their children
Probes ==
  Range(Rects) \cup QueryBounds
    \cup {B(8, 8, 0, 0), B(4, 4, 0, 0), B(16, 16, 0, 0), B(12, 12, 2, 2), B(8, 2, 2, 2)}

MidX(n) == n.bounds.x + (n.bounds.width \div 2)
MidY(n) == n.bounds.y + (n.bounds.height \div 2)
FarX(n) == n.bounds.x + n.bounds.width
FarY(n) == n.bounds.y + n.bounds.height

\* C20 as stated: the boundary coordinate belongs to the lower-valued
\* quadrant: a near edge on the mid-line is never routed right / bottom, and a
\* far edge on the mid-line or on the node's far edge fits no quadrant.
C20_BoundaryToLower ==
  \A n \in SplitNodes :
    \A r \in Probes :
      LET q == get_quadrant(n, r)
      IN  /\ r.x = MidX(n) => q \notin {Some(TR), Some(BR)}
          /\ r.y = MidY(n) => q \notin {Some(BR), Some(BL)}
          /\ r.x + r.width \in {MidX(n), FarX(n)} => q = None
          /\ r.y + r.height \in {MidY(n), FarY(n)} => q = None

\* r fits the top or the bottom half of n
FitsVertically(n, r) ==
  \/ r.y >= n.bounds.y /\ r.y + r.height < MidY(n)
  \/ r.y >= MidY(n) /\ r.y + r.height < FarY(n)

\* r fits the left or the right half of n
FitsHorizontally(n, r) ==
  \/ r.x >= n.bounds.x /\ r.x + r.width < MidX(n)
  \/ r.x >= MidX(n) /\ r.x + r.width < FarX(n)

\* C20 amended: the mid-line belongs to the higher-valued quadrant: a near
\* edge on the mid-line is routed right / bottom when the far edge is strictly
\* inside the node (and never left / top); the far edge is strict: an element
\* of non-zero extent whose far edge is on the mid-line, and any element whose
\* far edge is on the node's far edge, fits no quadrant. insert stores the
\* elements accordingly.
C20_MidLineToHigher ==
  /\ \A n \in SplitNodes :
       \A r \in Probes :
         LET q == get_quadrant(n, r)
         IN  /\ r.x = MidX(n) => q \notin {Some(TL), Some(BL)}
             /\ r.y = MidY(n) => q \notin {Some(TL), Some(TR)}
             /\ (r.x = MidX(n) /\ r.x + r.width < FarX(n) /\ FitsVertically(n, r))
                  => q \in {Some(TR), Some(BR)}
             /\ (r.y = MidY(n) /\ r.y + r.height < FarY(n) /\ FitsHorizontally(n, r))
                  => q \in {Some(BR), Some(BL)}
             /\ (r.x + r.width = MidX(n) /\ r.width > 0) => q = None
             /\ (r.y + r.height = MidY(n) /\ r.height > 0) => q = None
             /\ r.x + r.width = FarX(n) => q = None
             /\ r.y + r.height = FarY(n) => q = None
  /\ \A n \in SplitNodes :
       /\ \A e \in Range(preorder(n.children[TL + 1])) \cup Range(preorder(n.children[BL + 1])) :
            bounds(e).x + bounds(e).width < MidX(n)
       /\ \A e \in Range(preorder(n.children[TR + 1])) \cup Range(preorder(n.children[BR + 1])) :
            bounds(e).x >= MidX(n) /\ bounds(e).x + bounds(e).width < FarX(n)
       /\ \A e \in Range(preorder(n.children[TL + 1])) \cup Range(preorder(n.children[TR + 1])) :
            bounds(e).y + bounds(e).height < MidY(n)
       /\ \A e \in Range(preorder(n.children[BR + 1])) \cup Range(preorder(n.children[BL + 1])) :
            bounds(e).y >= MidY(n) /\ bounds(e).y + bounds(e).height < FarY(n)

\* insert has routed an element whose near edges lie on both mid-lines of a
\* node into the BottomRight child of that node
C20_Witness ==
  \E n \in SplitNodes :
    \E e \in Range(preorder(n.children[BR + 1])) :
      bounds(e).x = MidX(n) /\ bounds(e).y = MidY(n)

\* ---------------------------------------------------------------------- C21
\* the rectangles a and b have a point in common that is interior to both
overlaps(a, b) ==
  /\ a.x < b.x + b.width
  /\ b.x < a.x + a.width
  /\ a.y < b.y + b.height
  /\ b.y < a.y + a.height

\* C21: with the root at the origin and the query element inside the root, a
\* finished query has yielded every stored element whose rectangle overlaps
\* the query element's rectangle.
C21_NoOverlapMissed ==
  (QueryDone /\ tree.bounds.x = 0 /\ tree.bounds.y = 0 /\ within(tree.bounds, QElement)) =>
    \A e \in Range(preorder(tree)) :
      overlaps(bounds(e), QElement) => e \in Range(q_out)

\* ---------------------------------------------------------------------- C22
\* C22: whatever was inserted since, the query with a stored element yields
\* that element: for every stored element e the sequence of query(e) holds e,
\* and a finished query has yielded the stored elements whose bounds are the
\* query element's.
C22_QueryFindsItself ==
  /\ \A e \in Range(preorder(tree)) :
       e \in Range(QueryItems_collect(tree, query(bounds(e))))
  /\ QueryDone =>
       \A e \in Range(preorder(tree)) : bounds(e) = QElement => e \in Range(q_out)

\* a finished query with a stored element that lies two or more levels below
\* the root, after its node was split
C22_Witness ==
  /\ QueryDone
  /\ Len(QPath) >= 2
  /\ \E i \in DOMAIN QNode.elements :
       /\ bounds(QNode.elements[i]) = QElement
       /\ QNode.elements[i] \in Range(q_out)

\* ---------------------------------------------------------------------- C23
\* C23: once an Items iterator has returned None, every later next() on it
\* returns None as well, for split and unsplit trees alike.
C23_StaysExhausted ==
  [][(items # None /\ items_end /\ last'.op = "next") => last'.arg = 0]_vars
====
